---- MODULE Spec2Model ----
(***************************************************************************)
(* Verification model of the InvisibleResearch validation suite.           *)
(*                                                                         *)
(* Part I   ProgressStore: DataProtectionManager (data_protection.py) and  *)
(*          DataManager.save_validation_progress (data_manager.py).        *)
(* Part II  The review session of the web interface (web_interface.py).    *)
(* Part III The author extraction pipeline (LLM_name_detect.py).           *)
(*                                                                         *)
(* Files are modelled by their content and their modification time.  A     *)
(* file's content is the text json.dump left in it: either a complete      *)
(* JSON document ("json", with the value it encodes) or a prefix of one    *)
(* ("partial", which json.load rejects).  A modification time is the       *)
(* number of the write that produced the content: writes are ordered in    *)
(* time and no two of them share a modification time.  The wall clock of   *)
(* datetime.now().strftime("%Y%m%d_%H%M%S") is counted in seconds.         *)
(***************************************************************************)
EXTENDS Integers, Sequences, FiniteSets, TLC

VARIABLES
    live,      \* the progress file (validation_progress.json)
    tmp,       \* the temporary file (validation_progress.tmp)
    backups,   \* the files of the backups directory
    clock,     \* current time, in seconds
    writes,    \* number of file writes so far
    pc,        \* position of the save call in progress
    caller,    \* who called safe_save: "direct" or "dm" (DataManager)
    arg,       \* the data handed to the save call in progress
    pre,       \* content of the live file when the call in progress began
    killed,    \* the process was killed at pc
    last,      \* the last completed call and its outcome
    nsaves,    \* history: number of saves that made a pre_save backup
    created,   \* history: names of the backups made, in order of creation
    vfile,     \* the file handed to _verify_file_integrity
    vresult,   \* how the call ended
    records,              \* st.session_state.records
    validation_progress,  \* st.session_state.validation_progress (its keys)
    handler,   \* the button handler waiting for its save to return
    kept,      \* history: the reviews persisted and not re-reviewed since
    api_key,   \* os.getenv("OPENAI_API_KEY")
    client,    \* the module's OpenAI client, once built
    BATCH,     \* batch size (BATCH_SIZE)
    df,        \* the creator column of the input table
    idx,       \* index of the row the main loop is at
    authors_clean,  \* output column, by row
    affil_out,      \* output column, by row
    complex_batch,  \* rows waiting for the extractor: <<text, idx>>
    ppc,       \* position of the pipeline
    bpos,      \* position of process_batch in its batch
    attempt,   \* number of attempts made by call_llm for the current row
    log,       \* history: by row, how each attempt of call_llm ended
    inflight,  \* requests sent to the extractor and not yet answered
    text,      \* a raw creator string
    cleaned,   \* rough_clean applied to it once, twice, ...
    simple,    \* what is_simple returned for the cleaned string
    srec,      \* the ValidationRecord handed to the scorer
    sret,      \* what the scorer call returned
    snow,      \* the time datetime.now() gives the scorer
    sruns,     \* history: the fields each validate_record call wrote
    criteria   \* the validator's evaluation_criteria weights

storeVars == <<live, tmp, backups, clock, writes, pc, caller, arg, pre, killed, last>>
histVars == <<nsaves, created>>
verifyVars == <<vfile, vresult>>
sessVars == <<records, validation_progress, handler, kept>>
pipeVars == <<api_key, client, BATCH, df, idx, authors_clean, affil_out,
              complex_batch, ppc, bpos, attempt>>

callVars == <<log, inflight>>
textVars == <<text, cleaned, simple>>
scoreVars == <<srec, sret, snow, sruns, criteria>>

vars == <<storeVars, histVars, verifyVars, sessVars, pipeVars,
          callVars, textVars, scoreVars>>

\* the variables a specification of the store leaves alone
offStore == <<histVars, verifyVars, sessVars, pipeVars, callVars, textVars, scoreVars>>

----------------------------------------------------------------------------
(* Bounds of the model *)

NumRecords == 2         \* record identifiers 1..NumRecords
MaxClock == 2           \* the clock stops at this second
MaxWrites == 4          \* no call begins after this many file writes
max_backups == 2        \* retention limit N (self.max_backups; 10 in the source)

RecordIds == 1..NumRecords

Min(a, b) == IF a <= b THEN a ELSE b

----------------------------------------------------------------------------
(* Values and files *)

\* What a snapshot holds for a record identifier:
\*   "absent"  the key is not in the mapping
\*   "scalar"  a value that is not a mapping
\*   "noid"    a mapping without a record_id field
\*   "unser"   a ValidationRecord holding an object json cannot encode
\*   a review  a ValidationRecord with that overall_status ("unset" = None)
Reviews == {"unset", "correct", "partial", "incorrect"}
ValKinds == Reviews \cup {"absent", "scalar", "noid", "unser"}

NoRecs == [id \in RecordIds |-> "absent"]
Dict(recs) == [top |-> "dict", recs |-> recs]
NotADict == [top |-> "list", recs |-> NoRecs]

IsDict(v) == v # "scalar"
HasRecordId(v) == v \in Reviews \cup {"unser"}

\* json.dump raises TypeError on an object it cannot encode
Serializable(data) == \A id \in RecordIds : data.recs[id] # "unser"

NoFile == [exists |-> FALSE, text |-> "partial", data |-> Dict(NoRecs), mtime |-> 0]
JsonFile(data, t) == [exists |-> TRUE, text |-> "json", data |-> data, mtime |-> t]
PartialFile(t) == [exists |-> TRUE, text |-> "partial", data |-> Dict(NoRecs), mtime |-> t]

\* A file's content, without its modification time
Content(f) == [exists |-> f.exists, text |-> f.text, data |-> f.data]

----------------------------------------------------------------------------
(* DataProtectionManager._verify_file_integrity *)

\* (mutant of CheckRecords) the loop without the record_id test
RECURSIVE CheckRecordsNoId(_, _)
CheckRecordsNoId(recs, i) ==
    IF i > NumRecords THEN TRUE
    ELSE IF recs[i] = "absent" THEN CheckRecordsNoId(recs, i + 1)
    ELSE IF ~IsDict(recs[i]) THEN FALSE
    ELSE CheckRecordsNoId(recs, i + 1)

\* for record_id, record_data in data.items(): ...
RECURSIVE CheckRecords(_, _)
CheckRecords(recs, i) ==
    IF i > NumRecords THEN TRUE
    ELSE IF recs[i] = "absent" THEN CheckRecords(recs, i + 1)
    ELSE IF ~IsDict(recs[i]) THEN FALSE
    ELSE IF ~HasRecordId(recs[i]) THEN FALSE
    ELSE CheckRecords(recs, i + 1)

\* open(file_path) and json.load(f): the exception raised, or "none"
LoadRaises(f) ==
    IF ~f.exists THEN "FileNotFoundError"
    ELSE IF f.text # "json" THEN "JSONDecodeError"
    ELSE "none"

\* the exception classes of the two except clauses
DecodeErrors == {"JSONDecodeError", "UnicodeDecodeError", "KeyError"}
Exceptions == DecodeErrors \cup {"FileNotFoundError", "PermissionError"}

\* how the call ends: "true", "false", or "raised"
verify_outcome(f) ==
    IF LoadRaises(f) = "none"
    THEN IF f.data.top # "dict" THEN "false"
         ELSE IF CheckRecords(f.data.recs, 1) THEN "true" ELSE "false"
    ELSE IF LoadRaises(f) \in DecodeErrors THEN "false"
    ELSE IF LoadRaises(f) \in Exceptions THEN "false"
    ELSE "raised"

verify_file_integrity(f) == verify_outcome(f) = "true"

----------------------------------------------------------------------------
(* The backups directory *)

\* reason tags of the backups the calls below create
Reasons == {"pre_save", "pre_restore", "manual", "auto"}

\* datetime.now().strftime("%Y%m%d_%H%M%S"): the clock at second resolution
Timestamp(t) == t

\* validation_progress_backup_{reason}_{timestamp}.json
BackupName(b) == <<b.reason, b.ts>>
BackupNames == Reasons \X (0..Timestamp(MaxClock))

AsFile(b) == [exists |-> TRUE, text |-> b.text, data |-> b.data, mtime |-> b.mtime]
Named(bs, name) == {b \in bs : BackupName(b) = name}

\* shutil.copy2(progress_file, backup_path): content and modification time
\* are copied, a file of the same name is overwritten
CopyToBackup(bs, f, reason, t) ==
    LET new == [reason |-> reason, ts |-> Timestamp(t),
                text |-> f.text, data |-> f.data, mtime |-> f.mtime]
    IN  {b \in bs : BackupName(b) # BackupName(new)} \cup {new}

\* key=lambda p: p.stat().st_mtime
SortKey(b) == b.mtime

\* DataProtectionManager._cleanup_old_backups: sort by modification time,
\* newest first, and unlink all after the first max_backups.  sorted() is
\* stable, so files of equal modification time stay in the order glob
\* yields them, which is the directory's and is not determined: every set
\* the sort can keep is an outcome.
cleanup_old_backups(bs) ==
    {K \in SUBSET bs :
        /\ Cardinality(K) = Min(max_backups, Cardinality(bs))
        /\ \A k \in K, d \in bs \ K : SortKey(k) >= SortKey(d)}

\* DataProtectionManager.create_backup: the possible backups directories
\* after the call
create_backup(bs, f, reason, t) ==
    IF ~f.exists THEN {bs}
    ELSE cleanup_old_backups(CopyToBackup(bs, f, reason, t))

----------------------------------------------------------------------------
(* Inputs *)

\* snapshots handed to safe_save directly: any Dict[str, Any]
ValidA == Dict([id \in RecordIds |-> IF id = 1 THEN "correct" ELSE "absent"])
ValidB == Dict([id \in RecordIds |-> IF id = 1 THEN "correct" ELSE "partial"])
Unencodable == Dict([id \in RecordIds |-> IF id = 1 THEN "unser" ELSE "absent"])
LacksId == Dict([id \in RecordIds |-> IF id = 1 THEN "noid" ELSE "absent"])

SaveInputs == {ValidA, ValidB, Unencodable, LacksId, NotADict}

\* DataManager.save_validation_progress converts every record with asdict:
\* every value is a mapping with a record_id
ProgressInputs == {ValidA, ValidB, Unencodable}

\* os.getenv("OPENAI_API_KEY"): unset, or a string of this length that does
\* or does not start with "sk-"
NoKey == [set |-> FALSE, len |-> 0, sk |-> FALSE]
Key(n, sk) == [set |-> TRUE, len |-> n, sk |-> sk]

NoCall == [op |-> "none", ok |-> "none", valid |-> FALSE, data |-> Dict(NoRecs)]
Done(op, ok) == [op |-> op, ok |-> ok, valid |-> FALSE, data |-> Dict(NoRecs)]

----------------------------------------------------------------------------
(* Time *)

Tick ==
    /\ clock < MaxClock
    /\ clock' = clock + 1
    /\ UNCHANGED <<live, tmp, backups, writes, pc, caller, arg, pre, killed, last>>

----------------------------------------------------------------------------
(* DataProtectionManager.safe_save, one step per statement that touches    *)
(* the disk                                                                *)

Idle == pc = "idle" /\ ~killed

Begin(who, data) ==
    /\ Idle
    /\ pc' = "ss_backup"
    /\ caller' = who
    /\ arg' = data
    /\ pre' = Content(live)
    /\ last' = NoCall
    /\ UNCHANGED <<live, tmp, backups, clock, writes, killed>>

safe_save_call ==
    /\ writes < MaxWrites
    /\ \E data \in SaveInputs : Begin("direct", data)

\* 1. backup_path = self.create_backup("pre_save")
ss_backup ==
    /\ pc = "ss_backup" /\ ~killed
    /\ \E nb \in create_backup(backups, live, "pre_save", clock) : backups' = nb
    /\ pc' = "ss_write"
    /\ UNCHANGED <<live, tmp, clock, writes, caller, arg, pre, killed, last>>

\* (mutant of ss_write) the snapshot is written over the progress file itself
ss_write_in_place ==
    /\ pc = "ss_write" /\ ~killed
    /\ writes' = writes + 1
    /\ \E ioerror \in BOOLEAN :
         IF Serializable(arg) /\ ~ioerror
         THEN /\ live' = JsonFile(arg, writes')
              /\ tmp' = JsonFile(arg, writes')
              /\ pc' = "ss_verify"
         ELSE /\ live' = PartialFile(writes')
              /\ tmp' = PartialFile(writes')
              /\ pc' = "ss_except"
    /\ UNCHANGED <<backups, clock, caller, arg, pre, killed, last>>

\* 2. open(temp_file, 'w'); json.dump(data, f).  The write fails part-way
\* when the data holds an object json cannot encode (TypeError) or when the
\* disk fails (OSError); the file open()ed is left with a prefix.
ss_write ==
    /\ pc = "ss_write" /\ ~killed
    /\ writes' = writes + 1
    /\ \E ioerror \in BOOLEAN :
         IF Serializable(arg) /\ ~ioerror
         THEN /\ tmp' = JsonFile(arg, writes')
              /\ pc' = "ss_verify"
         ELSE /\ tmp' = PartialFile(writes')
              /\ pc' = "ss_except"
    /\ UNCHANGED <<live, backups, clock, caller, arg, pre, killed, last>>

\* 3. if self._verify_file_integrity(temp_file)
ss_verify ==
    /\ pc = "ss_verify" /\ ~killed
    /\ pc' = IF verify_file_integrity(tmp) THEN "ss_move" ELSE "ss_discard"
    /\ UNCHANGED <<live, tmp, backups, clock, writes, caller, arg, pre, killed, last>>

\* safe_save has returned: to its caller DataManager, or to the idle loop
Return(ok) ==
    IF caller = "dm"
    THEN /\ pc' = IF ok THEN "dm_done" ELSE "dm_fallback"
         /\ last' = last
    ELSE /\ pc' = "idle"
         /\ last' = Done("safe_save", IF ok THEN "true" ELSE "false")

\* 4. shutil.move(temp_file, progress_file): os.rename within one
\* directory, the target is replaced in one step; return True
ss_move ==
    /\ pc = "ss_move" /\ ~killed
    /\ live' = tmp
    /\ tmp' = NoFile
    /\ Return(TRUE)
    /\ UNCHANGED <<backups, clock, writes, caller, arg, pre, killed>>

\* else: temp_file.unlink(missing_ok=True); return False
ss_discard ==
    /\ pc = "ss_discard" /\ ~killed
    /\ tmp' = NoFile
    /\ Return(FALSE)
    /\ UNCHANGED <<live, backups, clock, writes, caller, arg, pre, killed>>

\* (mutant of ss_except) the handler returns without removing the file
ss_except_keeps_temp ==
    /\ pc = "ss_except" /\ ~killed
    /\ Return(FALSE)
    /\ UNCHANGED <<live, tmp, backups, clock, writes, caller, arg, pre, killed>>

\* except Exception: temp_file.unlink(missing_ok=True); return False
ss_except ==
    /\ pc = "ss_except" /\ ~killed
    /\ tmp' = NoFile
    /\ Return(FALSE)
    /\ UNCHANGED <<live, backups, clock, writes, caller, arg, pre, killed>>

----------------------------------------------------------------------------
(* DataManager.save_validation_progress *)

save_validation_progress ==
    /\ writes < MaxWrites
    /\ \E progress \in ProgressInputs : Begin("dm", progress)

\* if success: print(...)
dm_done ==
    /\ pc = "dm_done" /\ ~killed
    /\ pc' = "idle"
    /\ last' = Done("save_validation_progress", "returned")
    /\ UNCHANGED <<live, tmp, backups, clock, writes, caller, arg, pre, killed>>

\* else: open(progress_file, 'w'); json.dump(serializable_progress, f).
\* open truncates the live file; a failing dump leaves a prefix in it and
\* the exception is raised again.
dm_fallback ==
    /\ pc = "dm_fallback" /\ ~killed
    /\ writes' = writes + 1
    /\ \E ioerror \in BOOLEAN :
         IF Serializable(arg) /\ ~ioerror
         THEN /\ live' = JsonFile(arg, writes')
              /\ last' = Done("save_validation_progress", "returned")
         ELSE /\ live' = PartialFile(writes')
              /\ last' = Done("save_validation_progress", "raised")
    /\ pc' = "idle"
    /\ UNCHANGED <<tmp, backups, clock, caller, arg, pre, killed>>

----------------------------------------------------------------------------
(* create_backup("manual") and restore_from_backup, as the dashboard and   *)
(* the sidebar call them                                                   *)

manual_backup ==
    /\ Idle
    /\ live.exists
    /\ \E nb \in create_backup(backups, live, "manual", clock) : backups' = nb
    /\ last' = Done("create_backup", "returned")
    /\ UNCHANGED <<live, tmp, clock, writes, pc, caller, arg, pre, killed>>

\* what is recorded of a restore_from_backup call: its result, whether the
\* chosen file existed and passed verification, and the data it held
RestoreCall(ok, valid, data) ==
    [op |-> "restore_from_backup", ok |-> ok, valid |-> valid, data |-> data]

restore_from_backup(name) ==
    /\ Idle
    /\ pre' = Content(live)
    /\ IF Named(backups, name) = {}
       THEN \* if not backup_file.exists(): return False
            /\ last' = RestoreCall("false", FALSE, Dict(NoRecs))
            /\ UNCHANGED <<live, backups>>
       ELSE LET chosen == CHOOSE b \in backups : BackupName(b) = name IN
            IF ~verify_file_integrity(AsFile(chosen))
            THEN /\ last' = RestoreCall("false", FALSE, Dict(NoRecs))
                 /\ UNCHANGED <<live, backups>>
            ELSE \E nb \in create_backup(backups, live, "pre_restore", clock) :
                   /\ backups' = nb
                   /\ IF Named(nb, name) = {}
                      THEN \* shutil.copy2 raises FileNotFoundError: return False
                           /\ last' = RestoreCall("false", TRUE, chosen.data)
                           /\ live' = live
                      ELSE \* shutil.copy2(backup_file, self.progress_file)
                           /\ live' = AsFile(CHOOSE b \in nb : BackupName(b) = name)
                           /\ last' = RestoreCall("true", TRUE, chosen.data)
    /\ UNCHANGED <<tmp, clock, writes, pc, caller, arg, killed>>

restore == \E name \in BackupNames : restore_from_backup(name)

----------------------------------------------------------------------------
(* The process is killed during a save, and a new one starts *)

Kill ==
    /\ pc # "idle" /\ ~killed
    /\ killed' = TRUE
    /\ UNCHANGED <<live, tmp, backups, clock, writes, pc, caller, arg, pre, last>>

Restart ==
    /\ killed
    /\ killed' = FALSE
    /\ pc' = "idle"
    /\ last' = NoCall
    /\ UNCHANGED <<live, tmp, backups, clock, writes, caller, arg, pre>>

----------------------------------------------------------------------------
(* The store: the state after DataProtectionManager.__init__ in a fresh    *)
(* data directory                                                          *)

\* no file has been handed to the verification
VerifyOff ==
    /\ vfile = NoFile
    /\ vresult = "none"

\* ValidationApp.init_session_state in a new browser session
init_session_state ==
    /\ records = <<>>
    /\ validation_progress = {}
    /\ handler = "none"
    /\ kept = [id \in RecordIds |-> "none"]

\* the pipeline has not been started
PipelineOff ==
    /\ api_key = NoKey
    /\ client = "None"
    /\ BATCH = 1
    /\ df = <<>>
    /\ idx = 1
    /\ authors_clean = <<>>
    /\ affil_out = <<>>
    /\ complex_batch = <<>>
    /\ ppc = "off"
    /\ bpos = 1
    /\ attempt = 0

\* no call of the extractor has been made
CallsOff ==
    /\ log = <<>>
    /\ inflight = 0

\* no string has been handed to the text functions
TextOff ==
    /\ text = <<>>
    /\ cleaned = <<>>
    /\ simple = "none"

\* what is recorded of a call of the scorer: the function, the exception
\* it raised, the score an analysis returned, the four sub-scores and the
\* overall status validate_record wrote
Returned(fn, raised, score, scores, status) ==
    [fn |-> fn, raised |-> raised, score |-> score, scores |-> scores,
     status |-> status]
NoReturn == Returned("none", "none", 0, <<>>, "none")

\* no record has been handed to the scorer
ScorerOff ==
    /\ srec = <<>>
    /\ sret = NoReturn
    /\ snow = 0
    /\ sruns = <<>>
    /\ criteria = <<>>

StoreStart ==
    /\ live = NoFile
    /\ tmp = NoFile
    /\ backups = {}
    /\ clock = 0
    /\ writes = 0
    /\ pc = "idle"
    /\ caller = "direct"
    /\ arg = Dict(NoRecs)
    /\ pre = Content(NoFile)
    /\ killed = FALSE
    /\ last = NoCall
    /\ nsaves = 0
    /\ created = <<>>

InitStore ==
    /\ StoreStart
    /\ VerifyOff
    /\ init_session_state
    /\ PipelineOff
    /\ CallsOff
    /\ TextOff
    /\ ScorerOff

\* Saving, with the process killed and restarted at any point
NextSave ==
    \/ Tick /\ UNCHANGED offStore
    \/ safe_save_call /\ UNCHANGED offStore
    \/ save_validation_progress /\ UNCHANGED offStore
    \/ ss_backup /\ UNCHANGED offStore
    \/ ss_write /\ UNCHANGED offStore
    \/ ss_verify /\ UNCHANGED offStore
    \/ ss_move /\ UNCHANGED offStore
    \/ ss_discard /\ UNCHANGED offStore
    \/ ss_except /\ UNCHANGED offStore
    \/ dm_done /\ UNCHANGED offStore
    \/ dm_fallback /\ UNCHANGED offStore
    \/ Kill /\ UNCHANGED offStore
    \/ Restart /\ UNCHANGED offStore

SpecSave == InitStore /\ [][NextSave]_vars

\* The review application and the dashboard on one data directory: saves
\* through the DataManager, manual backups, restores
NextRestore ==
    \/ Tick /\ UNCHANGED offStore
    \/ save_validation_progress /\ UNCHANGED offStore
    \/ ss_backup /\ UNCHANGED offStore
    \/ ss_write /\ UNCHANGED offStore
    \/ ss_verify /\ UNCHANGED offStore
    \/ ss_move /\ UNCHANGED offStore
    \/ ss_except /\ UNCHANGED offStore
    \/ dm_done /\ UNCHANGED offStore
    \/ dm_fallback /\ UNCHANGED offStore
    \/ manual_backup /\ UNCHANGED offStore
    \/ restore /\ UNCHANGED offStore

SpecRestore == InitStore /\ [][NextRestore]_vars

\* A run of saves of valid snapshots, counting those that made a pre_save
\* backup
retention_save ==
    /\ writes < max_backups + 6      \* the first save finds no file to back up
    /\ nsaves < max_backups + 5
    /\ \E data \in {ValidA, ValidB} : Begin("direct", data)

\* ss_backup, with the backup it makes entered in the history
counted_backup ==
    /\ ss_backup
    /\ nsaves' = IF live.exists THEN nsaves + 1 ELSE nsaves
    /\ created' = IF live.exists
                  THEN Append(created, <<"pre_save", Timestamp(clock)>>)
                  ELSE created

NextRetention ==
    \/ Tick /\ UNCHANGED offStore
    \/ retention_save /\ UNCHANGED offStore
    \/ counted_backup /\ UNCHANGED <<verifyVars, sessVars, pipeVars,
                                     callVars, textVars, scoreVars>>
    \/ ss_write /\ UNCHANGED offStore
    \/ ss_verify /\ UNCHANGED offStore
    \/ ss_move /\ UNCHANGED offStore
    \/ ss_except /\ UNCHANGED offStore

SpecRetention == InitStore /\ [][NextRetention]_vars

----------------------------------------------------------------------------
(* Claims on saving *)

\* C1 (atomic save): at every point after the temporary file has been
\* written and before it is renamed over the target, also when the process
\* is killed there, the live file's content is what it was when safe_save
\* began.
C1_AtomicSave ==
    pc \in {"ss_verify", "ss_move", "ss_discard"} => Content(live) = pre

\* the process was killed just before the rename, with a complete new
\* snapshot in the temporary file and an older one in the live file
C1_Witness ==
    /\ killed
    /\ pc = "ss_move"
    /\ live.exists
    /\ tmp.exists
    /\ Content(tmp) # Content(live)

\* safe_save has returned False to its caller
SafeSaveReturnedFalse ==
    \/ last.op = "safe_save" /\ last.ok = "false"
    \/ pc = "dm_fallback"

C3_ProgressFileNeverPartial ==
    last.op = "save_validation_progress" =>
        \/ Content(live) = pre
        \/ Content(live) = Content(JsonFile(arg, 0))

----------------------------------------------------------------------------
(* Claims on restoring *)

\* C5: restore_from_backup called on an existing backup file that passes
\* integrity verification returns True, and afterwards the live file's
\* content is that backup's content.
C5_RestoreSucceeds ==
    (last.op = "restore_from_backup" /\ last.valid) =>
        /\ last.ok = "true"
        /\ Content(live) = Content(JsonFile(last.data, 0))

\* C6: after every restore_from_backup that returns True while a live file
\* existed, the backups directory holds a pre_restore backup whose content
\* is the live file's content from just before the restore.
C6_RestoreReversible ==
    (last.op = "restore_from_backup" /\ last.ok = "true" /\ pre.exists) =>
        \E b \in backups :
            /\ b.reason = "pre_restore"
            /\ Content(AsFile(b)) = pre

----------------------------------------------------------------------------
(* Claims on backup retention *)

\* the names of the backups made by the n latest creations
LatestCreated(n) ==
    {created[i] : i \in {j \in 1..Len(created) : j > Len(created) - n}}

\* C7: after N+5 saves that each made a pre_save backup, with retention
\* limit N, exactly N backup files remain and they are the N most recently
\* created, whatever the time between the saves.
C7_RetentionBound ==
    nsaves = max_backups + 5 =>
        /\ Cardinality(backups) = max_backups
        /\ {BackupName(b) : b \in backups} = LatestCreated(max_backups)

----------------------------------------------------------------------------
(* Integrity verification of any file *)

\* the JSON documents a file can hold: a top level that is not a mapping,
\* or a mapping whose values are of any shape json can encode
Documents ==
    {NotADict} \cup {Dict(r) : r \in [RecordIds -> ValKinds \ {"unser"}]}

\* the files the call can be handed: missing, not JSON, or a document
Files == {NoFile, PartialFile(0)} \cup {JsonFile(doc, 0) : doc \in Documents}

verify_call ==
    /\ vresult = "none"
    /\ vresult' = verify_outcome(vfile)
    /\ UNCHANGED vfile

InitVerify ==
    /\ StoreStart
    /\ vfile \in Files
    /\ vresult = "none"
    /\ init_session_state
    /\ PipelineOff
    /\ CallsOff
    /\ TextOff
    /\ ScorerOff

NextVerify ==
    \/ verify_call /\ UNCHANGED <<storeVars, histVars, sessVars, pipeVars,
                                  callVars, textVars, scoreVars>>

SpecVerify == InitVerify /\ [][NextVerify]_vars

\* the file deserializes to a mapping whose every value is a mapping with a
\* record_id field
WellFormed(f) ==
    /\ f.exists
    /\ f.text = "json"
    /\ f.data.top = "dict"
    /\ \A id \in RecordIds :
         f.data.recs[id] # "absent" =>
             f.data.recs[id] \in Reviews

\* C8: _verify_file_integrity never raises, and it returns True exactly for
\* the files that deserialize to a mapping whose every value is a mapping
\* containing record_id.
C8_IntegrityVerification ==
    vresult # "none" =>
        /\ vresult \in {"true", "false"}
        /\ vresult = "true" <=> WellFormed(vfile)

\* a document with one well-formed record and one mapping that lacks
\* record_id was reported invalid
C8_Witness ==
    /\ vresult = "false"
    /\ vfile.exists
    /\ vfile.text = "json"
    /\ vfile.data.top = "dict"
    /\ \E i, j \in RecordIds :
         /\ vfile.data.recs[i] = "correct"
         /\ vfile.data.recs[j] = "noid"

----------------------------------------------------------------------------
(* Part II.  The review session: ValidationApp of web_interface.py.        *)
(* st.session_state.records is the list of ValidationRecord objects, here  *)
(* the overall_status of each; validation_progress maps record ids to the  *)
(* same objects, here the set of its keys.                                 *)

\* DataManager.load_validation_progress: the records of the progress file,
\* or {} when the file is missing or anything raises while it is read
load_validation_progress(f) ==
    IF ~f.exists THEN NoRecs
    ELSE IF f.text # "json" THEN NoRecs
    ELSE IF f.data.top # "dict" THEN NoRecs
    ELSE IF \E id \in RecordIds : f.data.recs[id] \notin Reviews \cup {"absent"}
         THEN NoRecs
    ELSE f.data.recs

\* the statuses a reviewer gives
ReviewChoices == {"correct", "incorrect"}

\* what save_progress hands to save_validation_progress
Snapshot ==
    Dict([id \in RecordIds |->
            IF id \in validation_progress THEN records[id] ELSE "absent"])

\* no handler is running and the page has been drawn
Ready == Idle /\ handler = "none"

\* a new browser session: init_session_state finds an empty session_state
session_start ==
    /\ Ready
    /\ records' = <<>>
    /\ validation_progress' = {}
    /\ UNCHANGED <<handler, storeVars>>

\* ValidationApp.load_data
load_data ==
    /\ Ready
    /\ records = <<>>
    /\ LET progress == load_validation_progress(live) IN
       records' = [id \in RecordIds |->
                     IF progress[id] # "absent" THEN progress[id] ELSE "unset"]
    /\ UNCHANGED <<validation_progress, handler, storeVars>>

\* the quick marking buttons and the form of render_validation_form
review(id, status) ==
    /\ Ready
    /\ records # <<>>
    /\ records' = [records EXCEPT ![id] = status]
    /\ validation_progress' = validation_progress \cup {id}
    /\ UNCHANGED <<handler, storeVars>>

\* the "reload data" button
reload_data ==
    /\ Ready
    /\ records # <<>>
    /\ records' = <<>>
    /\ validation_progress' = {}
    /\ UNCHANGED <<handler, storeVars>>

\* ValidationApp.auto_save at the start of a run, more than 30 seconds
\* after the last save
auto_save ==
    /\ Ready
    /\ writes < MaxWrites
    /\ \E elapsed \in {10, 40} : elapsed > 30
    /\ Begin("dm", Snapshot)
    /\ handler' = "auto"
    /\ UNCHANGED <<records, validation_progress>>

\* auto_save after save_progress: create_protection_manager() builds a new
\* manager (last_backup_time = 0), so auto_backup_if_needed makes a backup
auto_save_backup ==
    /\ Idle
    /\ handler = "auto"
    /\ \E nb \in create_backup(backups, live, "auto", clock) : backups' = nb
    /\ handler' = "none"
    /\ UNCHANGED <<records, validation_progress>>
    /\ UNCHANGED <<live, tmp, clock, writes, pc, caller, arg, pre, killed, last>>

\* the "manual save" button
manual_save ==
    /\ Ready
    /\ records # <<>>
    /\ writes < MaxWrites
    /\ Begin("dm", Snapshot)
    /\ handler' = "manual"
    /\ UNCHANGED <<records, validation_progress>>

\* if self.save_progress(): protection.create_backup("manual")
manual_save_backup ==
    /\ Idle
    /\ handler = "manual"
    /\ IF last.ok = "returned"
       THEN \E nb \in create_backup(backups, live, "manual", clock) : backups' = nb
       ELSE backups' = backups
    /\ handler' = "none"
    /\ UNCHANGED <<records, validation_progress>>
    /\ UNCHANGED <<live, tmp, clock, writes, pc, caller, arg, pre, killed, last>>

\* the review the file holds for a record, "none" if it holds none
Persisted(f, id) ==
    IF f.exists /\ f.text = "json" /\ f.data.top = "dict"
       /\ f.data.recs[id] \in Reviews \ {"unset"}
    THEN f.data.recs[id]
    ELSE "none"

\* history: a write of the live file persists the reviews it holds
Persist ==
    kept' = IF live' = live THEN kept
            ELSE [id \in RecordIds |->
                    IF kept[id] # "none" THEN kept[id] ELSE Persisted(live', id)]

\* history: the record is reviewed again
Rereview(id) == kept' = [kept EXCEPT ![id] = "none"]

\* a step of the store on behalf of the session
OfSession(step) ==
    /\ step
    /\ Persist
    /\ UNCHANGED <<records, validation_progress, handler>>

offSession == <<histVars, verifyVars, pipeVars, callVars, textVars, scoreVars>>

NextSession ==
    \/ OfSession(Tick) /\ UNCHANGED offSession
    \/ session_start /\ Persist /\ UNCHANGED offSession
    \/ load_data /\ Persist /\ UNCHANGED offSession
    \/ \E id \in RecordIds, status \in ReviewChoices :
         review(id, status) /\ Rereview(id) /\ UNCHANGED offSession
    \/ reload_data /\ Persist /\ UNCHANGED offSession
    \/ auto_save /\ Persist /\ UNCHANGED offSession
    \/ auto_save_backup /\ Persist /\ UNCHANGED offSession
    \/ manual_save /\ Persist /\ UNCHANGED offSession
    \/ manual_save_backup /\ Persist /\ UNCHANGED offSession
    \/ OfSession(ss_backup) /\ UNCHANGED offSession
    \/ OfSession(ss_write) /\ UNCHANGED offSession
    \/ OfSession(ss_verify) /\ UNCHANGED offSession
    \/ OfSession(ss_move) /\ UNCHANGED offSession
    \/ OfSession(ss_except) /\ UNCHANGED offSession
    \/ OfSession(dm_done) /\ UNCHANGED offSession
    \/ OfSession(dm_fallback) /\ UNCHANGED offSession

SpecSession == InitStore /\ [][NextSession]_vars

\* C4: a review persisted to the live progress file stays in it, with its
\* status, through every later session start, load, review of other
\* records, reload, auto-save and manual save, until that record is
\* reviewed again.  (Stated for the states in which the live file is a
\* complete document: what a failed write leaves is the matter of C3.)
C4_WorkNotLost ==
    (live.exists /\ live.text = "json") =>
        \A id \in RecordIds :
            kept[id] # "none" => Persisted(live, id) = kept[id]

----------------------------------------------------------------------------
(* Part III.  The author extraction pipeline: LLM_name_detect.py.          *)
(* A creator string is a sequence of tokens: names, the delimiters ";"     *)
(* and ",", an affiliation word, an HTML tag, a run of blanks.  Single     *)
(* spaces between tokens are left out.                                     *)

MaxRows == 3            \* the input table has at most this many rows
MaxBatch == 2           \* BATCH_SIZE is between 1 and this

\* stop=stop_after_attempt(6)
stop_after_attempt == 6

Names == {"Ann", "Bob"}
Tag == "<b>"
Blanks == "  "
AffilWord == "univ"

Creators ==
    { <<>>,
      <<Tag, Blanks>>,
      <<"Ann">>,
      <<Tag, "Bob", ",", "Ann">>,
      <<"Ann", ";", "Bob">>,
      <<"Bob", AffilWord>> }

RECURSIVE Tables(_)
Tables(n) ==
    IF n = 0 THEN {<<>>}
    ELSE Tables(n - 1) \cup
         {Append(t, c) : t \in {u \in Tables(n - 1) : Len(u) = n - 1}, c \in Creators}

\* further tokens of creator strings: an HTML tag written with character
\* entities ("&lt;b&gt;"), the phrase "Dept. of Biology", the surname
\* "Telford"
EscapedTag == "&lt;b&gt;"
DeptPhrase == "Dept. of Biology"
Surname == "Telford"

IsText(tok) == tok # Tag /\ tok # Blanks

\* BeautifulSoup(...).get_text: the text nodes, character entities decoded
Decoded(tok) == IF tok = EscapedTag THEN Tag ELSE tok

\* strip_html, NFKC, whitespace compressed and stripped
rough_clean(raw) ==
    LET kept_text == SelectSeq(raw, IsText)
    IN  [i \in 1..Len(kept_text) |-> Decoded(kept_text[i])]

IsAffil(tok) == tok = AffilWord
IsName(tok) == tok \in Names

\* AFFIL_PAT.search: a word starts with universit, faculty, department,
\* institute, hospital, school, center, college, email, tel, phone, ...
\* ("Telford" does, "Dept." does not)
MatchesAffilPat(tok) == tok \in {AffilWord, Surname}

\* re.search(r"[;&/\\]| and ", txt, re.I): one of the four characters, or
\* the word "and" with a space on either side (the text is stripped, so
\* not as its first or last word)
IsDelim(tok) == tok \in {";", "&", "/", "\\"}
HasDelim(txt) ==
    \/ \E i \in 1..Len(txt) : IsDelim(txt[i])
    \/ \E i \in 2..(Len(txt) - 1) : txt[i] = "and"

\* r",[ ]*[A-Z...]": a comma followed by a capital letter
Capitalised(tok) == tok \in Names \cup {Surname, DeptPhrase}
CommaGroups(txt) ==
    {i \in 1..(Len(txt) - 1) : txt[i] = "," /\ Capitalised(txt[i + 1])}

\* no affiliation pattern, no delimiter, at most one comma group
is_simple(txt) ==
    /\ \A i \in 1..Len(txt) : ~MatchesAffilPat(txt[i])
    /\ ~HasDelim(txt)
    /\ Cardinality(CommaGroups(txt)) <= 1

\* _validate_api_key
validate_api_key(k) ==
    IF k.len = 0 THEN FALSE
    ELSE IF k.len < 10 THEN FALSE
    ELSE IF k.sk /\ k.len < 20 THEN FALSE
    ELSE TRUE

\* _get_openai_client: the client, or the exception raised
get_openai_client(k) ==
    IF ~k.set \/ k.len = 0 THEN "EnvironmentError"
    ELSE IF ~validate_api_key(k) THEN "ValueError"
    ELSE "OpenAI"

ApiKeys == {NoKey, Key(15, TRUE), Key(40, TRUE)}

\* what the extractor answers for a text: the names and the affiliations
\* in it (tool call parse_authors)
Extract(txt) ==
    [authors_original |-> SelectSeq(txt, IsName),
     affiliations |-> SelectSeq(txt, IsAffil)]

\* return {"authors_original": [], "affiliations": []}
NoToolCall == [authors_original |-> <<>>, affiliations |-> <<>>]

\* "; ".join(authors)
RECURSIVE Join(_)
Join(authors) ==
    IF Len(authors) <= 1 THEN authors
    ELSE <<Head(authors), ";">> \o Join(Tail(authors))

\* (mutant of RowOf) the position in the batch taken for the row index
RowByPosition(batch, pos) == pos

\* for clean_txt, idx in batch: the row index of an entry
RowOf(batch, pos) == batch[pos][2]

\* authors_clean[idx] = ...; affil_out[idx] = ...; next entry of the batch
Resolve(row, res) ==
    /\ authors_clean' = [authors_clean EXCEPT ![row] = Join(res.authors_original)]
    /\ affil_out' = [affil_out EXCEPT ![row] = res.affiliations]
    /\ bpos' = bpos + 1
    /\ attempt' = 0

\* (mutant of Failed) the last failure ends the whole batch
FailedAbortsBatch(row) ==
    IF attempt + 1 >= stop_after_attempt
    THEN /\ authors_clean' = [authors_clean EXCEPT ![row] = <<>>]
         /\ affil_out' = [affil_out EXCEPT ![row] = <<>>]
         /\ bpos' = Len(complex_batch) + 1
         /\ attempt' = 0
    ELSE /\ attempt' = attempt + 1
         /\ UNCHANGED <<authors_clean, affil_out, bpos>>

\* (mutant of Failed) one more attempt than the ceiling is made
FailedOneMore(row) ==
    IF attempt + 1 >= stop_after_attempt + 1
    THEN Resolve(row, NoToolCall)
    ELSE /\ attempt' = attempt + 1
         /\ UNCHANGED <<authors_clean, affil_out, bpos>>

\* an attempt of call_llm raised: tenacity tries again, or after
\* stop_after_attempt attempts raises RetryError, which process_batch
\* catches (except Exception: authors_clean[idx] = ""; affil_out[idx] = [])
Failed(row) ==
    IF attempt + 1 >= stop_after_attempt
    THEN Resolve(row, NoToolCall)
    ELSE /\ attempt' = attempt + 1
         /\ UNCHANGED <<authors_clean, affil_out, bpos>>

\* (mutant of loop_row) a simple row is given the names found in it,
\* joined as a list of authors
loop_row_splits_simple ==
    /\ ppc = "loop"
    /\ idx <= Len(df)
    /\ LET clean_txt == rough_clean(df[idx]) IN
       IF clean_txt = <<>>
       THEN /\ authors_clean' = [authors_clean EXCEPT ![idx] = <<>>]
            /\ affil_out' = [affil_out EXCEPT ![idx] = <<>>]
            /\ idx' = idx + 1
            /\ UNCHANGED <<complex_batch, ppc, bpos>>
       ELSE IF is_simple(clean_txt)
       THEN /\ authors_clean' = [authors_clean EXCEPT
                                  ![idx] = Join(SelectSeq(clean_txt, IsName))]
            /\ affil_out' = [affil_out EXCEPT ![idx] = <<>>]
            /\ idx' = idx + 1
            /\ UNCHANGED <<complex_batch, ppc, bpos>>
       ELSE /\ complex_batch' = Append(complex_batch, <<clean_txt, idx>>)
            /\ IF Len(complex_batch') >= BATCH
               THEN /\ ppc' = "batch"
                    /\ bpos' = 1
                    /\ idx' = idx
               ELSE /\ idx' = idx + 1
                    /\ UNCHANGED <<ppc, bpos>>
            /\ UNCHANGED <<authors_clean, affil_out>>
    /\ UNCHANGED <<api_key, client, BATCH, df, attempt>>

\* the main loop of main(), one row
loop_row ==
    /\ ppc = "loop"
    /\ idx <= Len(df)
    /\ LET clean_txt == rough_clean(df[idx]) IN
       IF clean_txt = <<>>
       THEN /\ authors_clean' = [authors_clean EXCEPT ![idx] = <<>>]
            /\ affil_out' = [affil_out EXCEPT ![idx] = <<>>]
            /\ idx' = idx + 1
            /\ UNCHANGED <<complex_batch, ppc, bpos>>
       ELSE IF is_simple(clean_txt)
       THEN /\ authors_clean' = [authors_clean EXCEPT ![idx] = clean_txt]
            /\ affil_out' = [affil_out EXCEPT ![idx] = <<>>]
            /\ idx' = idx + 1
            /\ UNCHANGED <<complex_batch, ppc, bpos>>
       ELSE /\ complex_batch' = Append(complex_batch, <<clean_txt, idx>>)
            /\ IF Len(complex_batch') >= BATCH
               THEN /\ ppc' = "batch"
                    /\ bpos' = 1
                    /\ idx' = idx
               ELSE /\ idx' = idx + 1
                    /\ UNCHANGED <<ppc, bpos>>
            /\ UNCHANGED <<authors_clean, affil_out>>
    /\ UNCHANGED <<api_key, client, BATCH, df, attempt>>

\* how an attempt of call_llm can end: with a reply of the extractor, or
\* before any request because get_client() raised
Replies == {"tool_call", "no_tool_call", "error"}
Outcomes == Replies \cup {"no_client"}

\* one attempt of call_llm for the current entry of process_batch, ending
\* in the given way
llm_attempt(outcome) ==
    /\ ppc = "batch"
    /\ bpos <= Len(complex_batch)
    /\ LET row == RowOf(complex_batch, bpos)
           txt == complex_batch[bpos][1]
       IN  IF client = "None" /\ get_openai_client(api_key) # "OpenAI"
           THEN \* get_client() raises inside the retried function
                /\ outcome = "no_client"
                /\ Failed(row)
                /\ client' = client
           ELSE /\ outcome \in Replies
                /\ client' = "OpenAI"
                /\ CASE outcome = "tool_call" -> Resolve(row, Extract(txt))
                     [] outcome = "no_tool_call" -> Resolve(row, NoToolCall)
                     [] outcome = "error" -> Failed(row)
    /\ UNCHANGED <<api_key, BATCH, df, idx, complex_batch, ppc>>

call_llm == \E outcome \in Outcomes : llm_attempt(outcome)

\* (mutant of process_batch_return) the batch is not emptied on the way
\* back to the loop
process_batch_return_keeps_batch ==
    /\ ppc = "batch"
    /\ bpos > Len(complex_batch)
    /\ IF idx <= Len(df)
       THEN /\ idx' = idx + 1
            /\ ppc' = "loop"
            /\ UNCHANGED complex_batch
       ELSE /\ ppc' = "write"
            /\ UNCHANGED <<complex_batch, idx>>
    /\ UNCHANGED <<api_key, client, BATCH, df, authors_clean, affil_out, bpos, attempt>>

\* process_batch returns: to the loop (complex_batch = []) or to the end
process_batch_return ==
    /\ ppc = "batch"
    /\ bpos > Len(complex_batch)
    /\ IF idx <= Len(df)
       THEN /\ complex_batch' = <<>>
            /\ idx' = idx + 1
            /\ ppc' = "loop"
       ELSE /\ ppc' = "write"
            /\ UNCHANGED <<complex_batch, idx>>
    /\ UNCHANGED <<api_key, client, BATCH, df, authors_clean, affil_out, bpos, attempt>>

\* (mutant of final_flush) the rows still queued at the end of the loop
\* are not processed
final_flush_drops_rest ==
    /\ ppc = "loop"
    /\ idx > Len(df)
    /\ ppc' = "write"
    /\ UNCHANGED <<api_key, client, BATCH, df, idx, authors_clean, affil_out,
                   complex_batch, attempt, bpos>>

\* if complex_batch: process_batch(complex_batch)
final_flush ==
    /\ ppc = "loop"
    /\ idx > Len(df)
    /\ IF complex_batch # <<>>
       THEN ppc' = "batch" /\ bpos' = 1
       ELSE ppc' = "write" /\ bpos' = bpos
    /\ UNCHANGED <<api_key, client, BATCH, df, idx, authors_clean, affil_out,
                   complex_batch, attempt>>

\* affil_out = [a if a is not None else [] ...]; pq.write_table
write_table ==
    /\ ppc = "write"
    /\ affil_out' = [i \in 1..Len(affil_out) |->
                       IF affil_out[i] = "None" THEN <<>> ELSE affil_out[i]]
    /\ ppc' = "done"
    /\ UNCHANGED <<api_key, client, BATCH, df, idx, authors_clean, complex_batch,
                   bpos, attempt>>

\* main() after the table is read: any table, batch size and credential
PipelineStart ==
    /\ api_key \in ApiKeys
    /\ client = "None"
    /\ BATCH \in 1..MaxBatch
    /\ df \in Tables(MaxRows)
    /\ idx = 1
    /\ authors_clean = [i \in 1..Len(df) |-> <<>>]
    /\ affil_out = [i \in 1..Len(df) |-> "None"]
    /\ complex_batch = <<>>
    /\ ppc = "loop"
    /\ bpos = 1
    /\ attempt = 0

InitPipeline ==
    /\ StoreStart
    /\ VerifyOff
    /\ init_session_state
    /\ PipelineStart
    /\ CallsOff
    /\ TextOff
    /\ ScorerOff

offPipeline == <<storeVars, histVars, verifyVars, sessVars, callVars, textVars, scoreVars>>

NextPipeline ==
    \/ loop_row /\ UNCHANGED offPipeline
    \/ call_llm /\ UNCHANGED offPipeline
    \/ process_batch_return /\ UNCHANGED offPipeline
    \/ final_flush /\ UNCHANGED offPipeline
    \/ write_table /\ UNCHANGED offPipeline

SpecPipeline == InitPipeline /\ [][NextPipeline]_vars

\* the outputs that can be computed from one creator string
Computed(raw) ==
    LET txt == rough_clean(raw) IN
    IF txt = <<>> THEN {<< <<>>, <<>> >>}
    ELSE IF is_simple(txt) THEN {<<txt, <<>>>>}
    ELSE {<<Join(Extract(txt).authors_original), Extract(txt).affiliations>>,
          << <<>>, <<>> >>}

\* C9 (order preservation): when the pipeline has written its output, the
\* output has as many entries as the input has records, and the authors
\* and affiliations at index i are ones computed from the creator string
\* of input record i.
C9_OrderPreserved ==
    ppc = "done" =>
        /\ Len(authors_clean) = Len(df)
        /\ Len(affil_out) = Len(df)
        /\ \A i \in 1..Len(df) :
             <<authors_clean[i], affil_out[i]>> \in Computed(df[i])

\* a run over a complex record, a simple one and another complex one, in
\* batches of two, where the first was extracted and the last failed
C9_Witness ==
    /\ ppc = "done"
    /\ BATCH = 2
    /\ Len(df) >= 3
    /\ ~is_simple(rough_clean(df[1]))
    /\ rough_clean(df[2]) # <<>> /\ is_simple(rough_clean(df[2]))
    /\ ~is_simple(rough_clean(df[3]))
    /\ authors_clean[1] # <<>>
    /\ authors_clean[2] = rough_clean(df[2])
    /\ authors_clean[3] = <<>>

\* C10: while the credential is missing or malformed, no call of the
\* extractor is tried again and no complex record is given a result.
C10_ConfigFailureIsFatal ==
    (client = "None" /\ get_openai_client(api_key) # "OpenAI") =>
        /\ attempt <= 1
        /\ \A i \in 1..Len(df) :
             ~is_simple(rough_clean(df[i])) => affil_out[i] = "None"

----------------------------------------------------------------------------
(* The pipeline with the calls of the extractor told apart: a request is   *)
(* sent, then answered; every attempt of call_llm is entered in the log of *)
(* its row.                                                                *)

\* (mutant of Dispatched) every remaining entry of the batch is sent at once
DispatchedWholeBatch(batch, pos) == Len(batch) - pos + 1

\* res = call_llm(clean_txt): the requests process_batch sends before it
\* waits for a reply
Dispatched(batch, pos) == 1

\* get_client() returns a client
HasClient == client # "None" \/ get_openai_client(api_key) = "OpenAI"

\* get_client().chat.completions.create(...) is entered
send_request ==
    /\ ppc = "batch"
    /\ bpos <= Len(complex_batch)
    /\ inflight = 0
    /\ HasClient
    /\ inflight' = inflight + Dispatched(complex_batch, bpos)
    /\ UNCHANGED <<pipeVars, log>>

\* an attempt of call_llm, entered in the log of its row
logged_attempt(outcome) ==
    /\ llm_attempt(outcome)
    /\ log' = [log EXCEPT ![RowOf(complex_batch, bpos)] = Append(@, outcome)]

\* the request is answered, or fails
receive_reply ==
    /\ inflight > 0
    /\ \E outcome \in Replies : logged_attempt(outcome)
    /\ inflight' = inflight - 1

\* the attempt ends in get_client(), before any request
refused_attempt ==
    /\ inflight = 0
    /\ logged_attempt("no_client")
    /\ inflight' = inflight

\* the creators of the logged runs: empty, simple, complex
LoggedCreators == {<<>>, <<Tag, "Bob", ",", "Ann">>, <<"Ann", ";", "Bob">>}

InitCalls ==
    /\ StoreStart
    /\ VerifyOff
    /\ init_session_state
    /\ PipelineStart
    /\ \A i \in 1..Len(df) : df[i] \in LoggedCreators
    /\ log = [i \in 1..Len(df) |-> <<>>]
    /\ inflight = 0
    /\ TextOff
    /\ ScorerOff

offCalls == <<storeVars, histVars, verifyVars, sessVars, textVars, scoreVars>>

NextCalls ==
    \/ loop_row /\ UNCHANGED callVars /\ UNCHANGED offCalls
    \/ send_request /\ UNCHANGED offCalls
    \/ receive_reply /\ UNCHANGED offCalls
    \/ refused_attempt /\ UNCHANGED offCalls
    \/ process_batch_return /\ UNCHANGED callVars /\ UNCHANGED offCalls
    \/ final_flush /\ UNCHANGED callVars /\ UNCHANGED offCalls
    \/ write_table /\ UNCHANGED callVars /\ UNCHANGED offCalls

SpecCalls == InitCalls /\ [][NextCalls]_vars

\* the attempt raised
Failures == {"error", "no_client"}

\* the record is complex: it is routed to the extractor
IsComplex(raw) == rough_clean(raw) # <<>> /\ ~is_simple(rough_clean(raw))

\* every attempt of the row failed, up to the ceiling
Exhausted(lg) ==
    /\ Len(lg) = stop_after_attempt
    /\ \A k \in 1..Len(lg) : lg[k] \in Failures

\* C11 (bounded retry): every record has at most stop_after_attempt
\* attempts, and every attempt but its last one failed: none follows a
\* success, none follows the last allowed failure.
C11_BoundedRetry ==
    \A i \in 1..Len(log) :
        /\ Len(log[i]) <= stop_after_attempt
        /\ \A k \in 1..(Len(log[i]) - 1) : log[i][k] \in Failures

\* the run is over; one record was given up after the last allowed failure
\* and another succeeded at its second attempt
C11_Witness ==
    /\ ppc = "done"
    /\ \E i, j \in 1..Len(log) :
         /\ Exhausted(log[i])
         /\ log[j] = <<"error", "tool_call">>

\* what a record's output is, given its creator string and the outcomes of
\* its own attempts alone
OwnResult(raw, lg) ==
    LET txt == rough_clean(raw) IN
    IF txt = <<>> THEN << <<>>, <<>> >>
    ELSE IF is_simple(txt) THEN <<txt, <<>>>>
    ELSE IF lg # <<>> /\ lg[Len(lg)] = "tool_call"
         THEN <<Join(Extract(txt).authors_original), Extract(txt).affiliations>>
    ELSE << <<>>, <<>> >>

\* C12 (failure isolation): when the run is over, every complex record has
\* been handed to the extractor, and every record's output is the one that
\* follows from its own creator string and its own attempts: empty authors
\* and affiliations for a record whose attempts all failed, and for every
\* other record what it gets when no record fails.
C12_FailureIsolated ==
    ppc = "done" =>
        \A i \in 1..Len(df) :
            /\ IsComplex(df[i]) => log[i] # <<>>
            /\ <<authors_clean[i], affil_out[i]>> = OwnResult(df[i], log[i])

\* three complex records in batches of two: the first failed on all
\* attempts, the second (same batch) and the third (next batch) were
\* extracted
C12_Witness ==
    /\ ppc = "done"
    /\ BATCH = 2
    /\ Len(df) >= 3
    /\ \A i \in 1..3 : IsComplex(df[i])
    /\ Exhausted(log[1])
    /\ authors_clean[1] = <<>>
    /\ log[2] = <<"tool_call">>
    /\ log[3] = <<"tool_call">>
    /\ authors_clean[2] # <<>>
    /\ authors_clean[3] # <<>>

\* C13: in the output, a record whose attempts all failed differs from
\* every record that was resolved with an empty author list without
\* failing (an empty creator, a reply naming no authors).
C13_FailedIsFlagged ==
    ppc = "done" =>
        \A i, j \in 1..Len(df) :
            (/\ Exhausted(log[i])
             /\ ~Exhausted(log[j])
             /\ authors_clean[j] = <<>>)
            => <<authors_clean[i], affil_out[i]>> # <<authors_clean[j], affil_out[j]>>

\* LLM_CONFIG['MAX_CONCURRENT']
MAX_CONCURRENT == 8

\* C14 (concurrency bound): at every moment of a run at most one request
\* is in flight, which is within the limit MAX_CONCURRENT, whatever the
\* number of queued records and the batch size.
C14_ConcurrencyBound ==
    /\ inflight <= 1
    /\ inflight <= MAX_CONCURRENT

\* a request is in flight while the batch holds another record to send
C14_Witness ==
    /\ inflight = 1
    /\ BATCH >= 2
    /\ ppc = "batch"
    /\ bpos < Len(complex_batch)

\* C15 (simple path): a record classified simple is never handed to the
\* extractor, and once the loop has passed it its authors output is the
\* normalized creator text, token for token, and its affiliations output
\* is empty.
C15_SimplePath ==
    \A i \in 1..Len(df) :
        (rough_clean(df[i]) # <<>> /\ is_simple(rough_clean(df[i]))) =>
            /\ log[i] = <<>>
            /\ i < idx =>
                 /\ authors_clean[i] = rough_clean(df[i])
                 /\ affil_out[i] = <<>>

\* the run is over; a simple record with markup and a comma stands between
\* two complex records that were handed to the extractor
C15_Witness ==
    /\ ppc = "done"
    /\ Len(df) >= 3
    /\ df[2] = <<Tag, "Bob", ",", "Ann">>
    /\ authors_clean[2] = <<"Bob", ",", "Ann">>
    /\ log[1] # <<>>
    /\ log[3] # <<>>

----------------------------------------------------------------------------
(* The text functions on any creator string: rough_clean and is_simple *)

MaxTokens == 3          \* a creator string has at most this many tokens

Alphabet ==
    Names \cup {Surname, DeptPhrase, AffilWord, Tag, EscapedTag, Blanks,
                ",", ";", "&", "and", "+", "/", "\\"}

RECURSIVE Texts(_)
Texts(n) ==
    IF n = 0 THEN {<<>>}
    ELSE Texts(n - 1) \cup
         {Append(t, tok) : t \in {u \in Texts(n - 1) : Len(u) = n - 1},
                           tok \in Alphabet}

\* rough_clean applied to the string, then to its own result
normalize ==
    /\ Len(cleaned) < 2
    /\ cleaned' = Append(cleaned,
                         rough_clean(IF cleaned = <<>> THEN text
                                     ELSE cleaned[Len(cleaned)]))
    /\ UNCHANGED <<text, simple>>

\* is_simple(clean_txt), as the row loop calls it
classify ==
    /\ cleaned # <<>>
    /\ cleaned[1] # <<>>
    /\ simple = "none"
    /\ simple' = IF is_simple(cleaned[1]) THEN "simple" ELSE "complex"
    /\ UNCHANGED <<text, cleaned>>

InitText ==
    /\ StoreStart
    /\ VerifyOff
    /\ init_session_state
    /\ PipelineOff
    /\ CallsOff
    /\ text \in Texts(MaxTokens)
    /\ cleaned = <<>>
    /\ simple = "none"
    /\ ScorerOff

offText == <<storeVars, histVars, verifyVars, sessVars, pipeVars, callVars, scoreVars>>

NextText ==
    \/ normalize /\ UNCHANGED offText
    \/ classify /\ UNCHANGED offText

SpecText == InitText /\ [][NextText]_vars

\* the explicit multi-author delimiters: semicolon, ampersand, the word
\* "and", plus sign, slash, backslash
ExplicitDelims == {";", "&", "and", "+", "/", "\\"}

Contains(txt, toks) == \E i \in 1..Len(txt) : txt[i] \in toks

\* C16: the classifier returns complex for every text that contains one of
\* the explicit multi-author delimiters.
C16_DelimitersAreComplex ==
    (simple # "none" /\ Contains(cleaned[1], ExplicitDelims)) => simple = "complex"

\* a single two-token name without punctuation, such as "Ann Telford"
TwoTokenName(txt) ==
    /\ Len(txt) = 2
    /\ \A i \in 1..2 : txt[i] \in Names \cup {Surname}

\* C17 (classifier monotonicity): every text containing "Dept. of Biology"
\* is classified complex, and a single two-token name without punctuation
\* is classified simple.
C17_ClassifierMonotone ==
    simple # "none" =>
        /\ Contains(cleaned[1], {DeptPhrase}) => simple = "complex"
        /\ TwoTokenName(cleaned[1]) => simple = "simple"

\* C18 (idempotence): normalizing a normalized string changes nothing.
C18_NormalizeIdempotent ==
    Len(cleaned) = 2 => cleaned[2] = cleaned[1]

----------------------------------------------------------------------------
(* Part IV.  The quality scorer: LLMValidator of llm_validator.py.         *)
(* processed_authors is the sequence of its pieces between semicolons      *)
(* (processed.split(';')); a piece and an original creator are concrete    *)
(* strings with the facts the analyses read from them.  Scores that carry  *)
(* halves are kept doubled.                                                *)

MaxPieces == 2          \* processed_authors has at most this many pieces
MaxAffils == 2          \* processed_affiliations has at most this many entries
MaxCount == 3           \* author_count is at most this

Piece(str, len, blank, commas, parts, case, special, spaces, valid, error, inst, words) ==
    [str |-> str, len |-> len, blank |-> blank, commas |-> commas,
     parts |-> parts, case |-> case, special |-> special, spaces |-> spaces,
     valid |-> valid, error |-> error, inst |-> inst, words |-> words]

\* str: the piece; len: len(name); blank: not name.strip(); commas: number
\* of commas (2 = more than one); parts: both sides of the one comma are
\* non-empty; case: isupper / islower / istitle or any upper; special:
\* [^\w\s,.-]; spaces: \s{2,}; valid: valid_name_pattern matches; error:
\* an error pattern occurs; inst: an institution keyword occurs; words: the
\* lower-cased words
Pieces ==
    { Piece("", 0, TRUE, 0, FALSE, "none", FALSE, FALSE, FALSE, FALSE, FALSE, {}),
      Piece("Smith, John", 11, FALSE, 1, TRUE, "mixed", FALSE, FALSE, TRUE,
            FALSE, FALSE, {"john", "smith"}),
      Piece("Doe, Jane", 9, FALSE, 1, TRUE, "mixed", FALSE, FALSE, TRUE,
            FALSE, FALSE, {"doe", "jane"}),
      Piece("SMITH", 5, FALSE, 0, FALSE, "upper", FALSE, FALSE, TRUE,
            FALSE, FALSE, {"smith"}),
      Piece("li", 2, FALSE, 0, FALSE, "lower", FALSE, FALSE, TRUE,
            FALSE, FALSE, {"li"}),
      Piece("a,b,#", 5, FALSE, 2, FALSE, "lower", TRUE, FALSE, FALSE,
            FALSE, FALSE, {"a", "b"}),
      Piece("Ann Telford", 11, FALSE, 0, FALSE, "mixed", FALSE, FALSE, TRUE,
            FALSE, TRUE, {"ann", "telford"}) }

Original(str, len, blank, inst, words) ==
    [str |-> str, len |-> len, blank |-> blank, inst |-> inst, words |-> words]

Originals ==
    { Original("", 0, TRUE, FALSE, {}),
      Original("Smith, John; Doe, Jane", 22, FALSE, FALSE,
               {"doe", "jane", "john", "smith"}),
      Original("SMITH", 5, FALSE, FALSE, {"smith"}),
      Original("Smith, John, Some University", 28, FALSE, TRUE,
               {"john", "smith", "some", "university"}) }

RECURSIVE Processed(_)
Processed(n) ==
    IF n = 1 THEN {<<p>> : p \in Pieces}
    ELSE Processed(n - 1) \cup
         {Append(q, p) : q \in {u \in Processed(n - 1) : Len(u) = n - 1}, p \in Pieces}

\* processed_affiliations by what the scorer reads of it: its length and
\* the number of entries with len(affiliation.strip()) > 5
Affiliations == {[total |-> n, long |-> k] : n \in 0..MaxAffils, k \in 0..MaxAffils} \cap
                {a \in [total : 0..MaxAffils, long : 0..MaxAffils] : a.long <= a.total}

\* evaluation_criteria[...]['weight'], in hundredths: configurable
Weights == {<<25, 25, 25, 25>>, <<40, 30, 20, 10>>}

ScorerRecords ==
    [original_creator : Originals, processed_authors : Processed(MaxPieces),
     processed_affiliations : Affiliations, author_count : 0..MaxCount]

\* sum(len(name) for name in ...)
RECURSIVE SumLen(_)
SumLen(seq) ==
    IF seq = <<>> THEN 0 ELSE Head(seq).len + SumLen(Tail(seq))

NotBlank(p) == ~p.blank

\* len(processed): the pieces and the semicolons between them
ProcessedLen(proc) == SumLen(proc) + Len(proc) - 1

\* not processed.strip()
ProcessedEmpty(proc) == Len(proc) = 1 /\ proc[1].blank

\* [name.strip() for name in processed.split(';') if name.strip()]
authors_list(proc) == SelectSeq(proc, NotBlank)

\* any(... for name in names)
AnyError(names) == \E i \in 1..Len(names) : names[i].error
AnyInstitution(names) == \E i \in 1..Len(names) : names[i].inst
AnyInvalid(names) == \E i \in 1..Len(names) : ~names[i].valid
AnyTooShort(names) == \E i \in 1..Len(names) : names[i].len < 2
AnyTooLong(names) == \E i \in 1..Len(names) : names[i].len > 100

WordsOf(proc) == UNION {proc[i].words : i \in 1..Len(proc)}

Max(a, b) == IF a >= b THEN a ELSE b


\* analyze_author_identification: the returned score
analyze_author_identification(record) ==
    LET original == record.original_creator
        processed == record.processed_authors
        names == authors_list(processed)
        original_words == original.words
        processed_words == WordsOf(processed)
        overlap == Cardinality(original_words \cap processed_words)
        union == Cardinality(original_words \cup processed_words)
    IN  IF original.blank THEN 1
        ELSE IF ProcessedEmpty(processed) THEN 1
        ELSE IF AnyError(processed) THEN 1
        ELSE IF ProcessedLen(processed) * 10 < original.len THEN 2
        ELSE IF ProcessedLen(processed) > 3 * original.len THEN 2
        ELSE IF AnyInvalid(names) THEN 2
        ELSE IF AnyTooShort(names) THEN 2
        ELSE IF AnyTooLong(names) THEN 2
        ELSE IF original_words # {} /\ processed_words # {}
             THEN IF overlap * 10 > 7 * union THEN 5
                  ELSE IF overlap * 10 > 5 * union THEN 4
                  ELSE IF overlap * 10 > 3 * union THEN 3
                  ELSE 2
        ELSE 3

Abs(n) == IF n >= 0 THEN n ELSE 0 - n

\* the floor every penalty of the separation analysis keeps: max(1, score - 1)
Penalised(score) == Max(1, score - 1)

\* the separation analysis with the duplicate penalty left out
separation_ignoring_duplicates(record) ==
    LET actual_authors == authors_list(record.processed_authors)
        actual_count == Len(actual_authors)
        expected_count == record.author_count
        base == IF actual_count = expected_count THEN 5
                ELSE IF Abs(actual_count - expected_count) = 1 THEN 4
                ELSE IF Abs(actual_count - expected_count) <= 2 THEN 3
                ELSE 2
        total_length == SumLen(actual_authors)
    IN  IF expected_count <= 1
        THEN IF Len(record.processed_authors) = 1 THEN 5 ELSE 2
        ELSE IF actual_count = 0 \/ total_length < 5 * actual_count
                \/ total_length > 50 * actual_count
        THEN Max(1, base - 1)
        ELSE base

\* analyze_author_separation: the returned score
analyze_author_separation(record) ==
    LET processed == record.processed_authors
        expected_count == record.author_count
        actual_authors == authors_list(processed)
        actual_count == Len(actual_authors)
        base == IF actual_count = expected_count THEN 5
                ELSE IF Abs(actual_count - expected_count) = 1 THEN 4
                ELSE IF Abs(actual_count - expected_count) <= 2 THEN 3
                ELSE 2
        duplicate_names ==
            \E i, j \in 1..actual_count :
                i # j /\ actual_authors[i].str = actual_authors[j].str
        after_duplicates == IF duplicate_names THEN Penalised(base) ELSE base
        total_length == SumLen(actual_authors)
        \* avg_length < 5, avg_length > 50; the average of no names is 0
        too_short == actual_count = 0 \/ total_length < 5 * actual_count
        too_long == actual_count > 0 /\ total_length > 50 * actual_count
    IN  IF expected_count <= 1
        THEN IF Len(processed) = 1 THEN 5 ELSE 2
        ELSE IF too_short \/ too_long THEN Penalised(after_duplicates)
        ELSE after_duplicates

\* analyze_name_affiliation_classification: the returned score
analyze_name_affiliation_classification(record) ==
    LET affiliations == record.processed_affiliations
    IN  IF AnyInstitution(record.processed_authors) THEN 2
        ELSE IF affiliations.total = 0
             THEN IF record.original_creator.inst THEN 3 ELSE 5
        ELSE IF affiliations.long = affiliations.total THEN 5
        ELSE IF affiliations.long * 10 > affiliations.total * 7 THEN 4
        ELSE 3

\* a per-name score left as computed
NoClamp(score2) == score2

\* max(1, min(5, score)), on doubled scores
Clamp(score2) == Max(2, Min(10, score2))

\* the score of one name before the clamp, doubled
name_score2(name) ==
    6 + (IF name.commas = 0 THEN 0
         ELSE IF name.commas = 1 /\ name.parts THEN 2
         ELSE 0 - 2)
      + (IF name.case \in {"upper", "lower"} THEN 0 - 2
         ELSE IF name.case = "mixed" THEN 1
         ELSE 0)
      - (IF name.special THEN 1 ELSE 0)
      - (IF name.spaces THEN 1 ELSE 0)

RECURSIVE SumScores2(_)
SumScores2(names) ==
    IF names = <<>> THEN 0
    ELSE Clamp(name_score2(Head(names))) + SumScores2(Tail(names))

\* rounding of num / den to the nearest integer, a tie upwards
round_half_up(num, den) == (2 * num + den) \div (2 * den)

\* Python's round of the rational num / den: to the nearest integer, a tie
\* to the even one
round(num, den) ==
    LET q == num \div den
        r == num % den
    IN  IF 2 * r < den THEN q
        ELSE IF 2 * r > den THEN q + 1
        ELSE IF q % 2 = 0 THEN q
        ELSE q + 1

\* analyze_name_formatting raises ZeroDivisionError when no name is left
formatting_raises(record) ==
    /\ ~ProcessedEmpty(record.processed_authors)
    /\ authors_list(record.processed_authors) = <<>>

\* analyze_name_formatting: the returned score, when it returns
analyze_name_formatting(record) ==
    LET names == authors_list(record.processed_authors)
    IN  IF ProcessedEmpty(record.processed_authors) THEN 1
        ELSE round(SumScores2(names), 2 * Len(names))

\* calculate_overall_score: the status, from the weighted sum in hundredths
calculate_overall_score(scores, weights) ==
    LET weighted_score == scores[1] * weights[1] + scores[2] * weights[2]
                          + scores[3] * weights[3] + scores[4] * weights[4]
    IN  IF weighted_score >= 450 THEN "correct"
        ELSE IF weighted_score >= 350 THEN "partial"
        ELSE "incorrect"

SubAnalyses == {"analyze_author_identification", "analyze_author_separation",
                "analyze_name_affiliation_classification"}

ScoreOf(fn, record) ==
    IF fn = "analyze_author_identification"
    THEN analyze_author_identification(record)
    ELSE IF fn = "analyze_author_separation"
    THEN analyze_author_separation(record)
    ELSE analyze_name_affiliation_classification(record)

\* one of the three analyses that always return is called on the record
call_analysis ==
    /\ sret = NoReturn
    /\ \E fn \in SubAnalyses :
         sret' = Returned(fn, "none", ScoreOf(fn, srec), <<>>, "none")
    /\ UNCHANGED <<srec, snow, sruns, criteria>>

\* analyze_name_formatting is called on the record
call_formatting ==
    /\ sret = NoReturn
    /\ sret' = IF formatting_raises(srec)
               THEN Returned("analyze_name_formatting", "ZeroDivisionError",
                             0, <<>>, "none")
               ELSE Returned("analyze_name_formatting", "none",
                             analyze_name_formatting(srec), <<>>, "none")
    /\ UNCHANGED <<srec, snow, sruns, criteria>>

\* validate_record is called on the record; the evaluation criteria are
\* those of the validator's configuration
validate_record ==
    /\ sret = NoReturn
    /\ \E weights \in Weights :
         LET scores == << analyze_author_identification(srec),
                          analyze_author_separation(srec),
                          analyze_name_affiliation_classification(srec),
                          analyze_name_formatting(srec) >>
         IN  sret' = IF formatting_raises(srec)
                     THEN Returned("validate_record", "ZeroDivisionError",
                                   0, <<>>, "none")
                     ELSE Returned("validate_record", "none", 0, scores,
                                   calculate_overall_score(scores, weights))
    /\ UNCHANGED <<srec, snow, sruns, criteria>>

InitScorer ==
    /\ StoreStart
    /\ VerifyOff
    /\ init_session_state
    /\ PipelineOff
    /\ CallsOff
    /\ TextOff
    /\ srec \in ScorerRecords
    /\ sret = NoReturn
    /\ snow = 0
    /\ sruns = <<>>
    /\ criteria = <<>>

offScorer == <<storeVars, histVars, verifyVars, sessVars, pipeVars, callVars, textVars>>

NextScorer ==
    \/ call_analysis /\ UNCHANGED offScorer
    \/ call_formatting /\ UNCHANGED offScorer
    \/ validate_record /\ UNCHANGED offScorer

SpecScorer == InitScorer /\ [][NextScorer]_vars

\* C19: validate_record never raises on a well-formed record: it returns
\* a record carrying four sub-scores and an overall status, also when
\* processed_authors is made only of semicolons.
C19_ScorerNeverRaises ==
    sret.fn = "validate_record" =>
        /\ sret.raised = "none"
        /\ Len(sret.scores) = 4
        /\ sret.status \in {"correct", "partial", "incorrect"}

\* C20: each of the four sub-analyses, called alone or from
\* validate_record, gives an integer from 1 to 5 whenever it returns.
C20_SubScoresInRange ==
    sret.raised = "none" =>
        /\ sret.fn \in SubAnalyses \cup {"analyze_name_formatting"}
             => sret.score \in 1..5
        /\ sret.fn = "validate_record"
             => \A k \in 1..Len(sret.scores) : sret.scores[k] \in 1..5

\* the formatting analysis has returned for a name whose penalties take
\* its score below 1 before the clamp
C20_Witness ==
    /\ sret.fn = "analyze_name_formatting"
    /\ sret.raised = "none"
    /\ \E i \in 1..Len(srec.processed_authors) :
         /\ ~srec.processed_authors[i].blank
         /\ name_score2(srec.processed_authors[i]) < 2
    /\ sret.score = 1

\* C30: the name-formatting score is at most 4 for every record on which
\* the analysis returns, called alone or from validate_record: a name
\* scores at most 4.5 and round takes 4.5 to 4.
C30_FormattingAtMostFour ==
    sret.raised = "none" =>
        /\ sret.fn = "analyze_name_formatting" => sret.score <= 4
        /\ sret.fn = "validate_record" => sret.scores[4] <= 4

\* the formatting analysis has returned 4 for names that all score 4.5
C30_Witness ==
    /\ sret.fn = "analyze_name_formatting"
    /\ sret.raised = "none"
    /\ authors_list(srec.processed_authors) # <<>>
    /\ \A i \in 1..Len(srec.processed_authors) :
         ~srec.processed_authors[i].blank
            => name_score2(srec.processed_authors[i]) = 9
    /\ sret.score = 4

\* the names of a record, as strings
NameStrings(record) ==
    LET names == authors_list(record.processed_authors)
    IN  {names[i].str : i \in 1..Len(names)}

Duplicated(record) ==
    Cardinality(NameStrings(record)) < Len(authors_list(record.processed_authors))

\* avg_length < 5 or avg_length > 50
OddLength(record) ==
    LET names == authors_list(record.processed_authors)
    IN  \/ names = <<>>
        \/ SumLen(names) < 5 * Len(names)
        \/ SumLen(names) > 50 * Len(names)

\* the record with one more piece after a semicolon
WithAppended(record, piece) ==
    [record EXCEPT !.processed_authors = Append(@, piece)]

----------------------------------------------------------------------------
(* The scorer on records with many affiliations.                           *)

ManyAffils == 10        \* processed_affiliations has at most this many entries

ManyAffiliations ==
    {a \in [total : 0..ManyAffils, long : 0..ManyAffils] : a.long <= a.total}

InitAffiliations ==
    /\ StoreStart
    /\ VerifyOff
    /\ init_session_state
    /\ PipelineOff
    /\ CallsOff
    /\ TextOff
    /\ srec \in [original_creator : Originals, processed_authors : Processed(1),
                 processed_affiliations : ManyAffiliations,
                 author_count : 0..1]
    /\ sret = NoReturn
    /\ snow = 0
    /\ sruns = <<>>
    /\ criteria = <<>>

SpecAffiliations == InitAffiliations /\ [][NextScorer]_vars

\* C27: with affiliations extracted and no institution keyword in the
\* authors field the classification score is 5 when every affiliation is
\* longer than 5 characters, 4 when at least 70% of them are, 3 otherwise.
C27_ClassificationRule ==
    (/\ sret.fn = "analyze_name_affiliation_classification"
     /\ srec.processed_affiliations.total > 0
     /\ ~AnyInstitution(srec.processed_authors)) =>
        LET a == srec.processed_affiliations
        IN  sret.score = (IF a.long = a.total THEN 5
                          ELSE IF a.long * 10 >= a.total * 7 THEN 4
                          ELSE 3)

----------------------------------------------------------------------------
(* The scorer called more than once on the same record.                    *)

MaxNow == 2             \* the clock of the scorer runs up to this
MaxRuns == 2            \* validate_record is called at most this often

\* the fields validate_record writes into the record: the four scores,
\* overall_status, validator_name and validation_timestamp
Written(raised, scores, status, validator_name, validation_timestamp) ==
    [raised |-> raised, scores |-> scores, overall_status |-> status,
     validator_name |-> validator_name,
     validation_timestamp |-> validation_timestamp]

\* validate_record(record) with the default validator_name, at time snow;
\* the analyses read original_creator, processed_authors,
\* processed_affiliations and author_count, which no call writes
validate_record_again ==
    /\ Len(sruns) < MaxRuns
    /\ LET scores == << analyze_author_identification(srec),
                        analyze_author_separation(srec),
                        analyze_name_affiliation_classification(srec),
                        analyze_name_formatting(srec) >>
       IN  sruns' = Append(sruns,
                IF formatting_raises(srec)
                THEN Written("ZeroDivisionError", <<>>, "none", "none", 0)
                ELSE Written("none", scores,
                             calculate_overall_score(scores, criteria),
                             "system", snow))
    /\ UNCHANGED <<srec, sret, snow, criteria>>

\* time passes between two calls
time_passes ==
    /\ snow < MaxNow
    /\ snow' = snow + 1
    /\ UNCHANGED <<srec, sret, sruns, criteria>>

InitRescore ==
    /\ StoreStart
    /\ VerifyOff
    /\ init_session_state
    /\ PipelineOff
    /\ CallsOff
    /\ TextOff
    /\ srec \in [original_creator : Originals, processed_authors : Processed(1),
                 processed_affiliations : Affiliations,
                 author_count : 0..MaxCount]
    /\ sret = NoReturn
    /\ snow = 0
    /\ sruns = <<>>
    /\ criteria \in Weights

NextRescore ==
    \/ validate_record_again /\ UNCHANGED offScorer
    \/ time_passes /\ UNCHANGED offScorer

SpecRescore == InitRescore /\ [][NextRescore]_vars

\* C21: two calls of validate_record on the same record write the same
\* four scores, the same overall status and the same other fields,
\* whenever they are made.
C21_ScorerDeterministic ==
    \A i, j \in 1..Len(sruns) : sruns[i] = sruns[j]

----------------------------------------------------------------------------
(* The listing of the backups directory.                                   *)

\* reason.split('_'): the pieces of a reason tag between underscores
ReasonWords(reason) ==
    CASE reason = "pre_save" -> <<"pre", "save">>
      [] reason = "pre_restore" -> <<"pre", "restore">>
      [] reason = "pre_report" -> <<"pre", "report">>
      [] reason = "dashboard_manual" -> <<"dashboard", "manual">>
      [] OTHER -> <<reason>>

\* backup_file.name.split('_') for the name create_backup gave the file:
\* validation_progress_backup_{reason}_{%Y%m%d_%H%M%S}.json
NameParts(b) ==
    <<"validation", "progress", "backup">> \o ReasonWords(b.reason)
        \o <<"date", "time.json">>

\* DataProtectionManager._extract_backup_reason, on the split name
extract_backup_reason(parts) ==
    IF Len(parts) >= 4 THEN parts[4] ELSE "unknown"

\* DataProtectionManager.list_backups: the reason reported for each file
list_backups(bs) ==
    {[name |-> BackupName(b), reason |-> extract_backup_reason(NameParts(b))] : b \in bs}

\* C28: the entry list_backups gives for a backup file reports the reason
\* tag that was passed to create_backup when the file was made.
C28_ReasonRoundTrip ==
    \A b \in backups :
        \E e \in list_backups(backups) :
            e.name = BackupName(b) /\ e.reason = b.reason

\* C29: between calls of safe_save, create_backup, restore_from_backup and
\* DataManager.save_validation_progress the live progress file, when it
\* exists, passes integrity verification.
C29_LiveFileAlwaysValid ==
    (Idle /\ live.exists) => verify_file_integrity(live)

----------------------------------------------------------------------------
(* The course of each record through the pipeline, read off the state of   *)
(* main(): the row loop normalizes and classifies a record in one pass     *)
(* and either resolves it or queues it.                                    *)

\* the rows of the entries of a batch
RowsOf(batch) == {RowOf(batch, k) : k \in 1..Len(batch)}

\* where record i stands, given the outputs written, the batch, the
\* position of main() and the attempts logged
StateOf(i, out, batch, at, pos, sent, tried, lg) ==
    IF out[i] # "None"
    THEN IF ~IsComplex(df[i]) THEN "ResolvedSimple"
         ELSE IF Exhausted(lg[i]) THEN "Failed"
         ELSE "ResolvedComplex"
    ELSE IF \E k \in 1..Len(batch) : RowOf(batch, k) = i
    THEN IF /\ at = "batch"
            /\ pos <= Len(batch)
            /\ RowOf(batch, pos) = i
            /\ (sent > 0 \/ tried > 0)
         THEN "Dispatched"
         ELSE "Queued"
    ELSE "Pending"

RecordState(i) ==
    StateOf(i, affil_out, complex_batch, ppc, bpos, inflight, attempt, log)

Terminal == {"ResolvedSimple", "ResolvedComplex", "Failed"}

\* the moves of a record in one step of the program; Normalized and
\* Classified are passed within the step that leaves Pending
Moves ==
    {<<"Pending", "ResolvedSimple">>, <<"Pending", "Queued">>,
     <<"Queued", "Dispatched">>,
     <<"Dispatched", "ResolvedComplex">>, <<"Dispatched", "Failed">>}

RecordStep(i) ==
    LET before == RecordState(i)
        after == StateOf(i, affil_out', complex_batch', ppc', bpos',
                         inflight', attempt', log')
    IN  /\ after # before => <<before, after>> \in Moves
        /\ after \in {"Queued", "Dispatched"} => IsComplex(df[i])
        /\ before \in Terminal =>
              authors_clean'[i] = authors_clean[i] /\ affil_out'[i] = affil_out[i]

\* C23: every record moves only along Pending -> (ResolvedSimple | Queued
\* -> Dispatched -> (ResolvedComplex | Failed)); only records classified
\* complex are queued or dispatched, and a record that is resolved or has
\* failed keeps its state and its result.
C23_RecordStateMachine ==
    [][\A i \in 1..Len(df) : RecordStep(i)]_vars

\* the run is over with a simple record, an extracted record and a failed
\* record
C23_Witness ==
    /\ ppc = "done"
    /\ \E i, j, k \in 1..Len(df) :
         /\ RecordState(i) = "ResolvedSimple" /\ rough_clean(df[i]) # <<>>
         /\ RecordState(j) = "ResolvedComplex"
         /\ RecordState(k) = "Failed"

\* the number of call_llm sequences the log of a row records: a sequence
\* ends with a reply or with the last allowed failure
RECURSIVE CallSequences(_, _)
CallSequences(lg, failures) ==
    IF lg = <<>> THEN (IF failures > 0 THEN 1 ELSE 0)
    ELSE IF Head(lg) \in Failures
    THEN IF failures + 1 = stop_after_attempt
         THEN 1 + CallSequences(Tail(lg), 0)
         ELSE CallSequences(Tail(lg), failures + 1)
    ELSE 1 + CallSequences(Tail(lg), 0)

\* the pipeline, where every step that can be taken is taken in the end:
\* each attempt of the extractor returns or fails.  Every step of main()
\* changes its position.
position == <<ppc, idx, bpos, attempt, inflight>>
SpecCallsFair == SpecCalls /\ WF_position(NextCalls)

\* C24: a complex record is in the batch at most once and enters it only
\* from Pending; the pipeline finishes, and then no record is left queued
\* and every complex record has had exactly one call sequence, for every
\* table length and batch size.
C24_QueuedOnceDispatchedOnce ==
    /\ [](\A k, l \in 1..Len(complex_batch) :
            RowOf(complex_batch, k) = RowOf(complex_batch, l) => k = l)
    /\ [](ppc = "done" =>
            \A i \in 1..Len(df) :
                /\ RecordState(i) \in Terminal
                /\ CallSequences(log[i], 0) = (IF IsComplex(df[i]) THEN 1 ELSE 0))
    /\ <>(ppc = "done")

\* the run is over; the last batch was flushed with fewer records than the
\* batch size, after a full batch
C24_Witness ==
    /\ ppc = "done"
    /\ BATCH = 2
    /\ Len(complex_batch) = 1
    /\ Cardinality({i \in 1..Len(df) : IsComplex(df[i])}) = 3
    /\ \A i \in 1..Len(df) : IsComplex(df[i]) => CallSequences(log[i], 0) = 1

\* C25: a reply of the extractor that carries no tool call is a failed
\* attempt: the record is given a result after it only when it was the
\* last allowed attempt.
C25_MalformedReplyRetried ==
    \A i \in 1..Len(df) :
        (/\ affil_out[i] # "None"
         /\ log[i] # <<>>
         /\ log[i][Len(log[i])] = "no_tool_call")
        => Len(log[i]) = stop_after_attempt

----------------------------------------------------------------------------
(* The pipeline stopped from outside (a signal, a crash) at any point.     *)
(* DST_PARQUET is written by pq.write_table at the end of main() and       *)
(* nowhere else.                                                           *)

\* the process ends before main() has returned
abort ==
    /\ ppc \in {"loop", "batch", "write"}
    /\ ppc' = "aborted"
    /\ inflight' = 0
    /\ UNCHANGED <<api_key, client, BATCH, df, idx, authors_clean, affil_out,
                   complex_batch, bpos, attempt, log>>

\* the rows of DST_PARQUET after the run: those of the table written, none
\* when nothing was written
OutputRows == IF ppc = "done" THEN 1..Len(df) ELSE {}

NextAborted ==
    \/ loop_row /\ UNCHANGED callVars /\ UNCHANGED offCalls
    \/ send_request /\ UNCHANGED offCalls
    \/ receive_reply /\ UNCHANGED offCalls
    \/ refused_attempt /\ UNCHANGED offCalls
    \/ process_batch_return /\ UNCHANGED callVars /\ UNCHANGED offCalls
    \/ final_flush /\ UNCHANGED callVars /\ UNCHANGED offCalls
    \/ write_table /\ UNCHANGED callVars /\ UNCHANGED offCalls
    \/ abort /\ UNCHANGED offCalls

SpecAborted == InitCalls /\ [][NextAborted]_vars

\* C26: after an abort the records resolved before it are in the output
\* with their results, and the unresolved ones are not in it.
C26_AbortKeepsResolved ==
    ppc = "aborted" =>
        \A i \in 1..Len(df) :
            i \in OutputRows <=> RecordState(i) \in Terminal

====
